---- MODULE Spec2Model ----
(***************************************************************************)
(* Moderation core of the decentralised feed (Home component):             *)
(* per-user vote registration (handleLike / handleReport /                 *)
(* handleGovernanceVote), the visibility filter (filterPosts) and the      *)
(* feed projection (the postsRef.map().on callback and the render-time     *)
(* sort).                                                                  *)
(*                                                                         *)
(* A JavaScript object used as a set ({ [alias]: true }) is modelled by    *)
(* the sequence of its keys in insertion order, which is what              *)
(* Object.keys returns; a string is modelled by the sequence of its        *)
(* characters.  The graph store is one shared record table: a put          *)
(* replaces the fields it names and leaves the others alone, and it        *)
(* reaches the table some time after the once() that computed it.          *)
(***************************************************************************)
EXTENDS Integers, Sequences, FiniteSets, TLC

\* ------------------------------------------------------------------ bounds
MaxPosts == 1          \* keys the store hands out under Spec
MaxTime == 1           \* Date.now() ranges over 1..MaxTime under Spec
MaxCasts == 3          \* vote handler invocations in a behaviour of Spec
MaxPairCasts == 2      \* vote handler invocations in a behaviour of SpecPair
MaxKeys == 2           \* keys the watched store reports under SpecFeed
MaxStamp == 2          \* createdAt of a reported record ranges over 1..MaxStamp
MaxReplay == 3         \* consecutive deliveries of one update event
MaxSubmits == 2        \* posts created in a behaviour of SpecPosting
MaxFrameCasts == 2     \* vote handler invocations in a behaviour of SpecFrame

Peers == {"p1", "p2", "p3"}     \* the sessions of Spec
Pair == {"p1", "p2"}            \* the sessions of SpecPair
Actors == {"alice", "bob"}
PostIds == 1..MaxPosts
Times == 1..MaxTime
PairKeys == {1}
PairTimes == {1}
FeedKeys == 1..MaxKeys
SubmitKeys == 1..MaxSubmits
FrameKeys == {1, 2}

None == "none"         \* undefined / null: no user, no toast, no error

\* ------------------------------------------------------- program constants
LIKE_THRESHOLD == 1
REPORT_THRESHOLD == 3
GOVERNANCE_THRESHOLD == 2
MIN_LENGTH == 3
SCRIPT_LENGTH == 17    \* "<script></script>".length

VoteClasses == {"likes", "reports", "governanceVotes"}

VARIABLES
  loggedIn,     \* [Peers -> BOOLEAN]           useState(false) of each session
  gunUserIs,    \* [Peers -> Actors \cup {None}] gunUser.is.alias of each session
  store,        \* [key -> record]              gun.get('posts')
  op,           \* [Peers -> record]             the session's vote round trip
  outcome,      \* what the latest handler or callback run reported, and where
  casts,        \* number of vote handler invocations so far
  posts,        \* the FeedView: useState<PostData[]>([])
  inflight      \* update events the store owes the postsRef.map().on callback

vars == <<loggedIn, gunUserIs, store, op, outcome, casts, posts, inflight>>

\* --------------------------------------------------------- object helpers
\* a lookup under the literal property name instead of the alias
HasKeyLiteral(obj, key) == \E i \in 1..Len(obj) : obj[i] = "currentUser"

\* key in obj  (obj[key] is truthy: every stored value is `true`)
HasKey(obj, key) == \E i \in 1..Len(obj) : obj[i] = key

\* Object.keys(obj).length
KeyCount(obj) == Len(obj)

\* obj[key] = true on an object: a new key is appended, an existing key stays
SetKey(obj, key) == IF HasKey(obj, key) THEN obj ELSE Append(obj, key)

\* An optional object-valued field: {defined, keys}.  Undefined is the
\* field being missing from the record.
Obj(keys) == [defined |-> TRUE, keys |-> keys]
Undefined == [defined |-> FALSE, keys |-> <<>>]

\* data.field || {}
OrEmpty(o) == IF o.defined THEN o.keys ELSE <<>>

\* ------------------------------------------------ validateAndSanitizeInput
\* A character is " ", a letter, or "SCRIPT": one whole <script></script> element.
CharLen(c) == IF c = "SCRIPT" THEN SCRIPT_LENGTH ELSE 1

RECURSIVE StrLen(_)
StrLen(s) == IF s = <<>> THEN 0 ELSE CharLen(Head(s)) + StrLen(Tail(s))

RECURSIVE TrimStart(_)
TrimStart(s) == IF s # <<>> /\ Head(s) = " " THEN TrimStart(Tail(s)) ELSE s

RECURSIVE TrimEnd(_)
TrimEnd(s) ==
  IF s # <<>> /\ s[Len(s)] = " " THEN TrimEnd(SubSeq(s, 1, Len(s) - 1)) ELSE s

Trim(s) == TrimEnd(TrimStart(s))

\* DOMPurify.sanitize: script elements are removed, the rest is kept
Sanitize(s) == SelectSeq(s, LAMBDA c : c # "SCRIPT")

\* the regular expression of line 45: a script element in the text
HasScript(s) == \E i \in 1..Len(s) : s[i] = "SCRIPT"

\* a validation that measures the text as typed
validateUntrimmed(text) ==
  LET sanitized == Sanitize(Trim(text))
  IN  IF StrLen(text) < MIN_LENGTH
        THEN [ok |-> FALSE, text |-> <<>>, toast |-> "error:minLength"]
      ELSE IF HasScript(sanitized)
        THEN [ok |-> FALSE, text |-> <<>>, toast |-> "error:invalid"]
      ELSE [ok |-> TRUE, text |-> sanitized, toast |-> "silent"]

\* [ok |-> the text to post, or FALSE; toast |-> the message shown]
validateAndSanitizeInput(text) ==
  LET trimmed == Trim(text)
      sanitized == Sanitize(trimmed)
  IN  IF StrLen(trimmed) < MIN_LENGTH
        THEN [ok |-> FALSE, text |-> <<>>, toast |-> "error:minLength"]
      ELSE IF HasScript(sanitized)
        THEN [ok |-> FALSE, text |-> <<>>, toast |-> "error:invalid"]
      ELSE [ok |-> TRUE, text |-> sanitized, toast |-> "silent"]

Inputs ==
  { <<" ", "a", "b", " ">>,
    <<" ", "a", "b", "c">>,
    <<"SCRIPT">>,
    <<"a", "b", "c", "SCRIPT">> }

\* the texts typed under SpecPosting: also one letter next to a script element
PostingInputs == Inputs \cup { <<"a", "SCRIPT">> }

\* ------------------------------------------------------------------ state
\* The record under a key of gun.get('posts'); exists = FALSE is "no record".
NoRecord ==
  [exists |-> FALSE, text |-> <<>>, createdAt |-> 0, user |-> None,
   likes |-> Undefined, reports |-> Undefined, governanceVotes |-> Undefined]

\* A session's vote round trip.  pc: "idle", "once" while postRef.once() is
\* out, "put" while postRef.put() is on its way to the store.
NoOp ==
  [pc |-> "idle", kind |-> None, postId |-> 0, user |-> None,
   read |-> <<>>, value |-> <<>>]

\* outcome is what the latest handler or callback run reported: the toast it
\* showed ("warn:login", "info:already", ...), "silent" for a run that ended
\* without one, "once" for a handler that sent its read, "TypeError" for a
\* throw.

Init ==
  /\ loggedIn = [p \in Peers |-> FALSE]
  /\ gunUserIs = [p \in Peers |-> None]
  /\ store = [k \in PostIds \cup PairKeys \cup SubmitKeys \cup FrameKeys |-> NoRecord]
  /\ op = [p \in Peers |-> NoOp]
  /\ outcome = None
  /\ casts = 0
  /\ posts = <<>>
  /\ inflight = {}

\* ------------------------------------------------------------ handleLogin
\* gunUser.auth(alias, password, ack): on success the session is logged in
\* and gunUser.is carries the alias; the login form is rendered only while
\* !loggedIn.
handleLogin(p, alias, err) ==
  /\ ~loggedIn[p]
  /\ IF err
       THEN /\ outcome' = "error:login"
            /\ UNCHANGED <<loggedIn, gunUserIs>>
       ELSE /\ loggedIn' = [loggedIn EXCEPT ![p] = TRUE]
            /\ gunUserIs' = [gunUserIs EXCEPT ![p] = alias]
            /\ outcome' = "success:login"
  /\ UNCHANGED <<store, op, casts, posts, inflight>>

\* gunUser.is && gunUser.is.alias: the identity provider answers with the
\* alias of the authenticated session, or with nothing.
CurrentActor(p) == {gunUserIs[p], None}

\* ------------------------------------------------------------- handlePost
\* A change of the record under key k is owed to the subscription of
\* postsRef.map().on as an update event carrying the record; `watched` says
\* whether the specification follows a subscribed view.
Emitted(watched, k, record) ==
  IF watched THEN inflight \cup {[key |-> k, data |-> record]} ELSE inflight

\* the key postsRef.set() files the new record under: one not in use
FreshKeys(keys) == {k \in keys : ~store[k].exists /\ \A j \in 1..(k - 1) : store[j].exists}

NewPost(text, now, currentUser) ==
  [exists |-> TRUE, text |-> text, createdAt |-> now,
   user |-> IF currentUser # None THEN currentUser ELSE "unknown",
   likes |-> Obj(<<>>), reports |-> Obj(<<>>), governanceVotes |-> Obj(<<>>)]

\* input is the text field's content; Date.now(), gunUser.is and the ack of
\* postsRef.set() are read where the code reads them.
handlePost(p, input, keys, times, watched) ==
  /\ LET v == validateAndSanitizeInput(input)
     IN  IF ~loggedIn[p]
           THEN /\ outcome' = "warn:login"
                /\ UNCHANGED <<store, inflight>>
         ELSE IF ~v.ok \/ v.text = <<>>
           THEN /\ outcome' = v.toast
                /\ UNCHANGED <<store, inflight>>
         ELSE \E now \in times, currentUser \in CurrentActor(p), err \in BOOLEAN :
                IF err
                  THEN /\ outcome' = "error:post"
                       /\ UNCHANGED <<store, inflight>>
                  ELSE \E k \in FreshKeys(keys) :
                         /\ store' = [store EXCEPT
                                        ![k] = NewPost(v.text, now, currentUser)]
                         /\ inflight' = Emitted(watched, k, store'[k])
                         /\ outcome' = "success:post"
  /\ UNCHANGED <<loggedIn, gunUserIs, op, casts, posts>>

\* ----------------------------- handleLike, handleReport, handleGovernanceVote
\* The synchronous part of a vote handler: the two guards, then
\* postRef.once(callback).
\* currentUser is what gunUser.is && gunUser.is.alias evaluates to.
CastStart(p, kind, postId, currentUser) ==
  /\ op[p].pc = "idle"
  /\ casts' = casts + 1
  /\ IF ~loggedIn[p]
       THEN /\ outcome' = "warn:login"
            /\ UNCHANGED op
     ELSE IF currentUser = None
       THEN /\ outcome' = "silent"
            /\ UNCHANGED op
     ELSE /\ op' = [op EXCEPT ![p] = [NoOp EXCEPT !.pc = "once", !.kind = kind,
                                        !.postId = postId, !.user = currentUser]]
          /\ outcome' = "once"
  /\ UNCHANGED <<loggedIn, gunUserIs, store, posts, inflight>>

handleLike(p, postId) ==
  \E currentUser \in CurrentActor(p) : CastStart(p, "likes", postId, currentUser)

handleReport(p, postId) ==
  \E currentUser \in CurrentActor(p) : CastStart(p, "reports", postId, currentUser)

handleGovernanceVote(p, postId) ==
  \E currentUser \in CurrentActor(p) :
     CastStart(p, "governanceVotes", postId, currentUser)

\* The callback of postRef.once(): data is the record as the store has it
\* now.  Reading a field of an absent record throws a TypeError out of the
\* callback.  A new vote is sent with postRef.put({ [kind]: votes }).
OnceCallback(p, kind, votedToast) ==
  /\ op[p].pc = "once"
  /\ op[p].kind = kind
  /\ LET data == store[op[p].postId]
         votes == OrEmpty(data[kind])
     IN  IF ~data.exists
           THEN /\ op' = [op EXCEPT ![p] = NoOp]
                /\ outcome' = "TypeError"
         ELSE IF ~HasKey(votes, op[p].user)
           THEN /\ op' = [op EXCEPT ![p] = [@ EXCEPT !.pc = "put", !.read = votes,
                                              !.value = SetKey(votes, op[p].user)]]
                /\ outcome' = votedToast
         ELSE /\ op' = [op EXCEPT ![p] = NoOp]
              /\ outcome' = "info:already"
  /\ UNCHANGED <<loggedIn, gunUserIs, store, casts, posts, inflight>>

likeOnce(p) == OnceCallback(p, "likes", "silent")

reportOnce(p) == OnceCallback(p, "reports", "success:reported")

governanceOnce(p) == OnceCallback(p, "governanceVotes", "success:voted")

\* a store that adds the vote sent to whatever it holds, as a counter would
PutFieldAdd(record, kind, value) ==
  [record EXCEPT ![kind] = Obj(OrEmpty(record[kind]) \o <<value[Len(value)]>>)]

\* a store that takes the object sent for the whole record
PutRecord(record, kind, value) ==
  [NoRecord EXCEPT !["exists"] = TRUE, ![kind] = Obj(value)]

\* What the store makes of put({ [kind]: value }): the named field takes the
\* value that was sent, the other fields of the record stay.
PutField(record, kind, value) == [record EXCEPT ![kind] = Obj(value)]

\* The put of a session reaches the store.
putApply(p, watched) ==
  /\ op[p].pc = "put"
  /\ store' = [store EXCEPT ![op[p].postId] = PutField(@, op[p].kind, op[p].value)]
  /\ inflight' = Emitted(watched, op[p].postId, store'[op[p].postId])
  /\ op' = [op EXCEPT ![p] = NoOp]
  /\ UNCHANGED <<loggedIn, gunUserIs, outcome, casts, posts>>

\* The store acknowledges the put of a session with ack.err: the record is
\* not changed.  The vote handlers hand postRef.put() no callback, so the
\* session shows nothing new.
putFail(p) ==
  /\ op[p].pc = "put"
  /\ op' = [op EXCEPT ![p] = NoOp]
  /\ UNCHANGED <<loggedIn, gunUserIs, store, outcome, casts, posts, inflight>>

\* ------------------------------------------------------------ filterPosts
\* the thresholds compared with <= instead of <
EligibleInclusive(post) ==
  LET reportCount == IF post.reports.defined THEN KeyCount(post.reports.keys) ELSE 0
      governanceCount ==
        IF post.governanceVotes.defined THEN KeyCount(post.governanceVotes.keys) ELSE 0
  IN  reportCount <= REPORT_THRESHOLD /\ governanceCount <= GOVERNANCE_THRESHOLD

Eligible(post) ==
  LET reportCount == IF post.reports.defined THEN KeyCount(post.reports.keys) ELSE 0
      governanceCount ==
        IF post.governanceVotes.defined THEN KeyCount(post.governanceVotes.keys) ELSE 0
  IN  reportCount < REPORT_THRESHOLD /\ governanceCount < GOVERNANCE_THRESHOLD

filterPosts(ps) == SelectSeq(ps, Eligible)

\* the render: filterPosts(posts).sort((a, b) => b.createdAt - a.createdAt).
\* Array.prototype.sort is stable: entries of equal createdAt keep the order
\* they have in posts.
InsertDesc(sorted, e) ==
  LET k == Cardinality({j \in 1..Len(sorted) : sorted[j].createdAt >= e.createdAt})
  IN  SubSeq(sorted, 1, k) \o <<e>> \o SubSeq(sorted, k + 1, Len(sorted))

RECURSIVE SortDesc(_)
SortDesc(s) ==
  IF s = <<>> THEN <<>> ELSE InsertDesc(SortDesc(SubSeq(s, 1, Len(s) - 1)), s[Len(s)])

snapshot == SortDesc(filterPosts(posts))

\* ------------------------------------------- postsRef.map().on(callback)
\* { id: key, ...data }
Entry(key, data) ==
  [id |-> key, text |-> data.text, createdAt |-> data.createdAt, user |-> data.user,
   likes |-> data.likes, reports |-> data.reports,
   governanceVotes |-> data.governanceVotes]

\* a lookup that tries the first entry only
ExistsFirst(prev, key) == prev # <<>> /\ prev[1].id = key

\* prev.find(p => p.id === key)
Exists(prev, key) == \E i \in 1..Len(prev) : prev[i].id = key

\* an updater without the exists branch
setPostsAppend(prev, key, data) == Append(prev, Entry(key, data))

\* an updater that drops the entry of the key and appends the new one
setPostsMoveToEnd(prev, key, data) ==
  Append(SelectSeq(prev, LAMBDA e : e.id # key), Entry(key, data))

\* the updater handed to setPosts
setPostsUpdater(prev, key, data) ==
  IF Exists(prev, key)
    THEN [i \in 1..Len(prev) |-> IF prev[i].id = key THEN Entry(key, data) ELSE prev[i]]
    ELSE Append(prev, Entry(key, data))

\* a callback without the data && data.text test
ProjectedUnguarded(prev, key, data) == setPostsUpdater(prev, key, data)

\* the view after the callback has run on (data, key): data && data.text
Projected(prev, key, data) ==
  IF data.exists /\ data.text # <<>> THEN setPostsUpdater(prev, key, data) ELSE prev

onUpdate(key, data) ==
  /\ posts' = Projected(posts, key, data)
  /\ UNCHANGED <<loggedIn, gunUserIs, store, op, outcome, casts, inflight>>

\* The store delivers an update event it owes; it may deliver it again later
\* (at least once, in any order).
deliver(e, again) ==
  /\ e \in inflight
  /\ posts' = Projected(posts, e.key, e.data)
  /\ inflight' = IF again THEN inflight ELSE inflight \ {e}
  /\ UNCHANGED <<loggedIn, gunUserIs, store, op, outcome, casts>>

\* The records the watched store reports: any peer may have written them.
\* An absent field is Undefined; a record whose text is missing or empty has
\* text = <<>>.
VoteProfiles ==
  { [likes |-> Undefined, reports |-> Undefined, governanceVotes |-> Undefined],
    [likes |-> Obj(<<"alice">>), reports |-> Obj(<<"alice", "bob">>),
     governanceVotes |-> Obj(<<"alice">>)],
    [likes |-> Undefined, reports |-> Obj(<<"alice", "bob">>),
     governanceVotes |-> Obj(<<"alice">>)],
    [likes |-> Obj(<<"alice">>), reports |-> Obj(<<"alice", "bob", "carol">>),
     governanceVotes |-> Obj(<<>>)],
    [likes |-> Obj(<<>>), reports |-> Obj(<<>>),
     governanceVotes |-> Obj(<<"alice", "bob">>)] }

EventData ==
  {NoRecord}
  \cup { [exists |-> TRUE, text |-> <<>>, createdAt |-> 1, user |-> "alice",
          likes |-> Obj(<<>>), reports |-> Obj(<<>>), governanceVotes |-> Obj(<<>>)] }
  \cup { [exists |-> TRUE, text |-> <<"a", "b", "c">>, createdAt |-> t, user |-> "alice",
          likes |-> v.likes, reports |-> v.reports,
          governanceVotes |-> v.governanceVotes] : t \in 1..MaxStamp, v \in VoteProfiles }

ViewKeys == {1, 2, 3}
ViewData == {d \in EventData : d.createdAt <= 1}

\* ------------------------------------------------------------------- Spec
\* The sessions `sessions` posting under the keys `keys` and voting on the
\* posts `targets`, with at most `cap` vote handler invocations.
NextOf(sessions, keys, targets, times, cap, watched) ==
  \/ \E p \in sessions, alias \in Actors, err \in BOOLEAN : handleLogin(p, alias, err)
  \/ \E p \in sessions, input \in Inputs : handlePost(p, input, keys, times, watched)
  \/ \E p \in sessions, postId \in targets : casts < cap /\ handleLike(p, postId)
  \/ \E p \in sessions, postId \in targets : casts < cap /\ handleReport(p, postId)
  \/ \E p \in sessions, postId \in targets : casts < cap /\ handleGovernanceVote(p, postId)
  \/ \E p \in sessions : likeOnce(p)
  \/ \E p \in sessions : reportOnce(p)
  \/ \E p \in sessions : governanceOnce(p)
  \/ \E p \in sessions : putApply(p, watched)
  \/ \E p \in sessions : putFail(p)

Next == NextOf(Peers, PostIds, PostIds, Times, MaxCasts, FALSE)

Spec == Init /\ [][Next]_vars

NextPair == NextOf(Pair, PairKeys, PairKeys, PairTimes, MaxPairCasts, FALSE)

SpecPair == Init /\ [][NextPair]_vars

NextFeed == \E key \in FeedKeys, data \in EventData : onUpdate(key, data)

SpecFeed == Init /\ [][NextFeed]_vars

\* the sessions of SpecPair, and a view subscribed to the store
NextSync ==
  \/ NextOf(Pair, PairKeys, PairKeys, PairTimes, MaxPairCasts, TRUE)
  \/ \E e \in inflight, again \in BOOLEAN : deliver(e, again)

SpecSync == Init /\ [][NextSync]_vars

\* a view that receives the records of one creation time under three keys
NextView == \E key \in ViewKeys, data \in ViewData : onUpdate(key, data)

SpecView == Init /\ [][NextView]_vars

\* two sessions that log in and post
NextPosting ==
  \/ \E p \in Pair, alias \in Actors, err \in BOOLEAN : handleLogin(p, alias, err)
  \/ \E p \in Pair, input \in PostingInputs :
       handlePost(p, input, SubmitKeys, PairTimes, FALSE)

SpecPosting == Init /\ [][NextPosting]_vars

\* the sessions of SpecPair with two posts in the store, voting on the first
NextFrame == NextOf(Pair, FrameKeys, PairKeys, PairTimes, MaxFrameCasts, FALSE)

SpecFrame == Init /\ [][NextFrame]_vars

\* ================================================================ claims

\* C1: when a put of actor X lands on a vote set that already holds X (the
\* put of a concurrent castVote of X, which read the same set, landed
\* first), the stored set holds X exactly once and its tally is the tally
\* both calls read plus one.
C1_RaceConvergesToOneEntry ==
  [][\A p \in Pair :
       LET k == op[p].postId
           kind == op[p].kind
           before == OrEmpty(store[k][kind])
           after == OrEmpty(store'[k][kind])
       IN  ( /\ op[p].pc = "put"
             /\ op'[p].pc = "idle"
             /\ \E i \in 1..Len(before) : before[i] = op[p].user )
           => /\ Cardinality({i \in 1..Len(after) : after[i] = op[p].user}) = 1
              /\ Len(after) = Len(op[p].read) + 1]_vars

\* C1 witness: X's vote is stored and a second put of X, computed from a set
\* without X, is still on its way.
C1_Witness ==
  \E p \in Pair :
    /\ op[p].pc = "put"
    /\ \A i \in 1..Len(op[p].read) : op[p].read[i] # op[p].user
    /\ \E i \in 1..Len(store[op[p].postId][op[p].kind].keys) :
         store[op[p].postId][op[p].kind].keys[i] = op[p].user

\* C2: a castVote whose read finds the actor in the vote set reports
\* AlreadyVoted, sends no put and leaves the store as it was.
C2_SecondCastIsNoOp ==
  [][\A p \in Pair :
       LET votes == OrEmpty(store[op[p].postId][op[p].kind])
       IN  ( /\ op[p].pc = "once"
             /\ op'[p] # op[p]
             /\ store[op[p].postId].exists
             /\ \E i \in 1..Len(votes) : votes[i] = op[p].user )
           => /\ outcome' = "info:already"
              /\ op'[p].pc = "idle"
              /\ store' = store]_vars

\* C2 witness: a second cast has reported AlreadyVoted.
C2_Witness ==
  /\ outcome = "info:already"
  /\ \E k \in PairKeys, kind \in VoteClasses : store[k].exists /\ store[k][kind].keys # <<>>

\* C3: an identity present in a stored vote set is present in it in every
\* later state.
C3_VoteSetsOnlyGrow ==
  [][\A k \in DOMAIN store, kind \in VoteClasses, a \in Actors :
       (\E i \in 1..Len(store[k][kind].keys) : store[k][kind].keys[i] = a)
       => (\E i \in 1..Len(store'[k][kind].keys) : store'[k][kind].keys[i] = a)]_vars

\* C4: a known post is in the snapshot iff it has fewer than 3 report votes
\* and fewer than 2 governance votes, an absent vote set counting as empty;
\* the likes play no part.
C4_EligibleIffBelowThresholds ==
  \A i \in 1..Len(posts) :
    LET e == posts[i]
        reports == IF e.reports.defined THEN {e.reports.keys[j] : j \in 1..Len(e.reports.keys)} ELSE {}
        governance ==
          IF e.governanceVotes.defined
            THEN {e.governanceVotes.keys[j] : j \in 1..Len(e.governanceVotes.keys)}
            ELSE {}
    IN  (\E j \in 1..Len(snapshot) : snapshot[j] = e)
        <=> (Cardinality(reports) < 3 /\ Cardinality(governance) < 2)

\* C4 witness: the view holds a post with 2 reports and 1 governance vote,
\* which is shown, and a post with exactly 3 reports, which is not.
C4_Witness ==
  /\ \E i \in 1..Len(posts) :
       /\ Len(posts[i].reports.keys) = 2
       /\ Len(posts[i].governanceVotes.keys) = 1
       /\ \E j \in 1..Len(snapshot) : snapshot[j].id = posts[i].id
  /\ \E i \in 1..Len(posts) :
       /\ Len(posts[i].reports.keys) = 3
       /\ \A j \in 1..Len(snapshot) : snapshot[j].id # posts[i].id

\* C5: a stored record that is ineligible is ineligible in every later state.
C5_IneligibleStaysIneligible ==
  [][\A k \in DOMAIN store :
       (store[k].exists /\ ~Eligible(store[k])) => ~Eligible(store'[k])]_vars

\* C6: the snapshot lists the posts by createdAt descending, posts of equal
\* createdAt by identifier ascending.
C6_SnapshotOrderIsDeterministic ==
  \A i, j \in 1..Len(snapshot) :
    i < j => \/ snapshot[i].createdAt > snapshot[j].createdAt
             \/ /\ snapshot[i].createdAt = snapshot[j].createdAt
                /\ snapshot[i].id < snapshot[j].id

\* C7: from every view, delivering one update event n >= 1 times in a row
\* gives the view that delivering it once gives.
C7_ReplayIsIdempotent ==
  \A key \in FeedKeys, data \in EventData, n \in 1..MaxReplay :
    LET Replay[m \in 0..MaxReplay] ==
          IF m = 0 THEN posts ELSE Projected(Replay[m - 1], key, data)
    IN  Replay[n] = Replay[1]

\* C7 witness: the view knows two posts, and an event for the second of them
\* changes the view when it is first delivered.
C7_Witness ==
  /\ Len(posts) = 2
  /\ \E data \in EventData : Projected(posts, posts[2].id, data) # posts

\* C8: the view holds at most one entry per identifier.
C8_OneEntryPerId ==
  \A i, j \in 1..Len(posts) : posts[i].id = posts[j].id => i = j

\* C8 witness: updates for two identifiers have been delivered, the one that
\* arrived second being listed first in the snapshot.
C8_Witness ==
  /\ Len(posts) = 2
  /\ Len(snapshot) = 2
  /\ snapshot[1].id = posts[2].id

\* C9: a vote handler called with no resolved actor (the session is not
\* logged in, or gunUser.is gives nothing) reports Unauthorized, sends no
\* read to the store and leaves the store as it was.
C9_NoActorIsUnauthorized ==
  [][\A p \in Pair, kind \in VoteClasses, k \in PairKeys :
       ( \/ CastStart(p, kind, k, None)
         \/ ~loggedIn[p] /\ CastStart(p, kind, k, gunUserIs[p]) )
       => /\ outcome' = "warn:login"
          /\ op' = op
          /\ store' = store]_vars

\* C10: a castVote whose read finds no record reports PostNotFound, writes
\* nothing and is not sent again.
C10_AbsentPostIsReported ==
  [][\A p \in Pair :
       ( /\ op[p].pc = "once"
         /\ op'[p] # op[p]
         /\ ~store[op[p].postId].exists )
       => /\ outcome' = "error:postNotFound"
          /\ op'[p].pc = "idle"
          /\ store' = store]_vars

\* C11: when the store acknowledges the put of a castVote with an error, the
\* session reports StoreWriteFailed, not success, and sends the put no
\* second time.
C11_FailedWriteIsReported ==
  [][\A p \in Pair :
       (putFail(p) /\ store[op[p].postId][op[p].kind] # Obj(op[p].value))
       => /\ outcome' = "error:write"
          /\ op'[p].pc = "idle"]_vars

\* C12: a known post that the view's filter excludes is in no later snapshot,
\* whatever update events for it are delivered afterwards.
C12_HiddenStaysHidden ==
  [][\A i \in 1..Len(posts) :
       ~Eligible(posts[i])
       => \A j \in 1..Len(snapshot') : snapshot'[j].id # posts[i].id]_vars

\* C15: once every update event has been delivered and no vote round trip is
\* under way, every vote the store holds is in the view's entry of the post.
C15_StoredVoteReachesView ==
  (inflight = {} /\ \A p \in Pair : op[p].pc = "idle")
  => \A k \in PairKeys, kind \in VoteClasses, a \in Actors :
       (\E n \in 1..Len(store[k][kind].keys) : store[k][kind].keys[n] = a)
       => \E i \in 1..Len(posts) :
            /\ posts[i].id = k
            /\ \E n \in 1..Len(posts[i][kind].keys) : posts[i][kind].keys[n] = a

\* C14: an update event with a record that has text, for an identifier the
\* view does not know, adds one entry at the end and leaves the others as they
\* were; for a known identifier it puts the event's record in the place of that
\* entry and leaves every other entry as it was. No known identifier is lost,
\* and every entry the filter accepts is in the snapshot.
C14_UpdateTouchesOneEntry ==
  [][\A key \in ViewKeys, data \in ViewData :
       (data.exists /\ data.text # <<>> /\ onUpdate(key, data))
       => LET known == {i \in 1..Len(posts) : posts[i].id = key}
              at    == IF known = {} THEN Len(posts) + 1 ELSE CHOOSE i \in known : TRUE
          IN  /\ Len(posts') = IF known = {} THEN Len(posts) + 1 ELSE Len(posts)
              /\ posts'[at].id = key
              /\ posts'[at].text = data.text
              /\ posts'[at].createdAt = data.createdAt
              /\ posts'[at].user = data.user
              /\ \A kind \in VoteClasses : posts'[at][kind] = data[kind]
              /\ \A i \in 1..Len(posts) : i # at => posts'[i] = posts[i]
              /\ \A i \in 1..Len(posts) : \E j \in 1..Len(posts') : posts'[j].id = posts[i].id
              /\ \E shown \in {snapshot'} :
                   \A i \in 1..Len(posts') :
                     (/\ Len(posts'[i].reports.keys) < REPORT_THRESHOLD
                      /\ Len(posts'[i].governanceVotes.keys) < GOVERNANCE_THRESHOLD)
                     => \E j \in 1..Len(shown) : shown[j] = posts'[i]]_vars

\* C14 witness: the view knows three identifiers, the entry of the first one
\* has been replaced by a record the filter rejects, the two others are shown.
C14_Witness ==
  /\ Len(posts) = 3
  /\ Len(posts[1].governanceVotes.keys) = GOVERNANCE_THRESHOLD
  /\ Len(snapshot) = 2
  /\ snapshot[1] = posts[2]
  /\ snapshot[2] = posts[3]

\* C17: an update event whose record is absent, or has no text or an empty
\* one, leaves the view as it was.
C17_EmptyUpdateIsIgnored ==
  [][\A key \in FeedKeys, data \in EventData :
       ((~data.exists \/ data.text = <<>>) /\ onUpdate(key, data))
       => posts' = posts]_vars

\* C17 witness: the view holds an entry, and neither an absent record nor a
\* record with an empty text for its identifier changes it.
C17_Witness ==
  /\ Len(posts) = 1
  /\ \A data \in EventData :
       (~data.exists \/ data.text = <<>>) => Projected(posts, posts[1].id, data) = posts
  /\ \E data \in EventData : data.exists /\ data.text = <<>>

\* C13: the put of a vote changes one vote set of one post: the text, the
\* author, createdAt and the two other vote sets of that post, and every other
\* post, are after the put what they were before it, whatever other puts
\* landed between the session's read and its put.
C13_PutChangesOneVoteSet ==
  [][\A p \in Pair :
       putApply(p, FALSE)
       => \A k \in FrameKeys :
            IF k = op[p].postId
              THEN /\ store'[k].exists = store[k].exists
                   /\ store'[k].text = store[k].text
                   /\ store'[k].user = store[k].user
                   /\ store'[k].createdAt = store[k].createdAt
                   /\ \A kind \in VoteClasses \ {op[p].kind} :
                        store'[k][kind] = store[k][kind]
              ELSE store'[k] = store[k]]_vars

\* C13 witness: a second post exists, a like has landed on the first post, and
\* the put of another session's report on it is about to land.
C13_Witness ==
  /\ \A k \in FrameKeys : store[k].exists
  /\ \E p \in Pair :
       /\ op[p].pc = "put"
       /\ op[p].kind = "reports"
       /\ store[op[p].postId].likes.keys # <<>>
       /\ \A i \in 1..Len(store[op[p].postId].likes.keys) :
            store[op[p].postId].likes.keys[i] # op[p].user

\* C16: a submission writes a post only from a logged-in session whose text,
\* trimmed, has at least MIN_LENGTH characters and is left non-empty and free
\* of script elements by the sanitizer; what it writes is one new record under
\* a key not in use, with three empty vote sets, which the filter accepts; the
\* records already stored stay as they are.
C16_PostOnlyIfValid ==
  [][\A p \in Pair, input \in PostingInputs :
       (handlePost(p, input, SubmitKeys, PairTimes, FALSE) /\ store' # store)
       => /\ loggedIn[p]
          /\ StrLen(Trim(input)) >= MIN_LENGTH
          /\ \E k \in SubmitKeys :
               /\ ~store[k].exists
               /\ store'[k].exists
               /\ store'[k].text # <<>>
               /\ \A i \in 1..Len(store'[k].text) : store'[k].text[i] # "SCRIPT"
               /\ \A kind \in VoteClasses : store'[k][kind] = Obj(<<>>)
               /\ Eligible(Entry(k, store'[k]))
               /\ \A j \in DOMAIN store : j # k => store'[j] = store[j]]_vars

\* C16 witness: two submissions of one text have made two records.
C16_Witness ==
  /\ \A k \in SubmitKeys : store[k].exists
  /\ \E j, k \in SubmitKeys :
       /\ j # k
       /\ store[j].text = store[k].text
       /\ store[j].user = store[k].user
       /\ store[j].createdAt = store[k].createdAt

====
